---- MODULE Spec2Model ----
(***************************************************************************)
(* Model of src/src/loudness_normalize.py: the LUFS normalizer             *)
(* (normalize_loudness), its command line (parse_arguments, main) and the  *)
(* per-attempt helper (_process_normalization_attempt).                    *)
(*                                                                         *)
(* Numbers.  Every level is kept in the decibel domain, in milli-dB        *)
(* (1000 = 1 dB = 1 LU).  A linear amplitude a is represented by           *)
(* 20*log10(a), so that 10 ** (x / 20) is the change of representation,    *)
(* a product of linear values is a sum and a quotient is a difference.     *)
(* IEEE-754 special values are kept: amplitude 0 is level -inf ("ninf"),   *)
(* amplitude inf is "pinf", NaN is "nan".  Samples are kept by magnitude   *)
(* (the code only ever takes np.abs of them and scales them by positive    *)
(* gains).                                                                 *)
(*                                                                         *)
(* Text.  Paths and command-line words are sequences of one-character      *)
(* strings, so that suffix, lower and lstrip are computed as the code      *)
(* computes them.                                                          *)
(***************************************************************************)
EXTENDS Integers, Sequences, FiniteSets, TLC

(***************************************************************************)
(* Extended decibel values                                                 *)
(***************************************************************************)
Fin(v) == [k |-> "fin", v |-> v]
NegInf == [k |-> "ninf", v |-> 0]
PosInf == [k |-> "pinf", v |-> 0]
NaN == [k |-> "nan", v |-> 0]

\* x + y on floats (also: the product of two linear values, in dB)
Add(x, y) ==
  IF x.k = "nan" \/ y.k = "nan" THEN NaN
  ELSE IF x.k = "fin" /\ y.k = "fin" THEN Fin(x.v + y.v)
  ELSE IF x.k = "fin" THEN y
  ELSE IF y.k = "fin" THEN x
  ELSE IF x.k = y.k THEN x
  ELSE NaN

Neg(x) ==
  IF x.k = "fin" THEN Fin(0 - x.v)
  ELSE IF x.k = "ninf" THEN PosInf
  ELSE IF x.k = "pinf" THEN NegInf
  ELSE NaN

\* x - y on floats (also: the quotient of two linear values, in dB)
Sub(x, y) == Add(x, Neg(y))

\* x > y on floats: false as soon as one side is NaN
Gt(x, y) ==
  /\ x.k # "nan"
  /\ y.k # "nan"
  /\ \/ x.k = "pinf" /\ y.k # "pinf"
     \/ x.k = "fin" /\ y.k = "ninf"
     \/ x.k = "fin" /\ y.k = "fin" /\ x.v > y.v

\* x <= y on floats: false as soon as one side is NaN
Le(x, y) == x.k # "nan" /\ y.k # "nan" /\ ~Gt(x, y)

\* abs(x) of a difference of loudness values (an ordinary float, not a level)
AbsDiff(x) ==
  IF x.k = "fin" THEN Fin(IF x.v < 0 THEN 0 - x.v ELSE x.v)
  ELSE IF x.k = "nan" THEN NaN
  ELSE PosInf

\* 1.5 * x on floats (exact on the even milli-dB values of the model)
Times15(x) == IF x.k = "fin" THEN Fin((3 * x.v) \div 2) ELSE x

(***************************************************************************)
(* Text helpers                                                            *)
(***************************************************************************)
UpperToLower ==
  [c \in {"A", "C", "F", "L", "M", "P", "V", "W"} |->
     CASE c = "A" -> "a" [] c = "C" -> "c" [] c = "F" -> "f" [] c = "L" -> "l"
       [] c = "M" -> "m" [] c = "P" -> "p" [] c = "V" -> "v" [] c = "W" -> "w"]

\* str.lower(), one character
LowerChar(c) == IF c \in DOMAIN UpperToLower THEN UpperToLower[c] ELSE c

\* str.lower()
Lower(s) == [i \in 1..Len(s) |-> LowerChar(s[i])]

\* str.lstrip('.')
RECURSIVE LStripDot(_)
LStripDot(s) ==
  IF s # <<>> /\ Head(s) = "." THEN LStripDot(Tail(s)) ELSE s

\* str.rfind(c), 1-based; 0 when c does not occur
RFind(s, c) ==
  LET hits == {i \in 1..Len(s) : s[i] = c}
  IN IF hits = {} THEN 0 ELSE CHOOSE i \in hits : \A j \in hits : j <= i

\* str.split('/')
RECURSIVE SplitSlash(_, _, _)
SplitSlash(s, cur, acc) ==
  IF s = <<>> THEN Append(acc, cur)
  ELSE IF Head(s) = "/" THEN SplitSlash(Tail(s), <<>>, Append(acc, cur))
  ELSE SplitSlash(Tail(s), Append(cur, Head(s)), acc)

IsRealPart(part) == Len(part) > 0 /\ part # <<".">>

\* pathlib.PurePosixPath parsing: empty and '.' components are dropped
PathParts(file_path) == SelectSeq(SplitSlash(file_path, <<>>, <<>>), IsRealPart)

\* pathlib.PurePath.name
PathName(file_path) ==
  LET parts == PathParts(file_path)
  IN IF Len(parts) = 0 THEN <<>> ELSE parts[Len(parts)]

\* pathlib.PurePath.suffix: name[i:] when 0 < i < len(name) - 1 (0-based i)
PathSuffix(file_path) ==
  LET name == PathName(file_path)
      i == RFind(name, ".")
  IN IF 1 < i /\ i < Len(name) THEN SubSeq(name, i, Len(name)) ELSE <<>>

GetFileExtensionNoLower(file_path) == LStripDot(PathSuffix(file_path))

get_file_extension(file_path) == LStripDot(Lower(PathSuffix(file_path)))

supported_formats ==
  {<<"w", "a", "v">>, <<"m", "p", "3">>, <<"f", "l", "a", "c">>}

check_supported_format(file_path) ==
  get_file_extension(file_path) \in supported_formats

\* os.path.basename
basename(p) == SubSeq(p, RFind(p, "/") + 1, Len(p))

RECURSIVE RStripSlash(_)
RStripSlash(s) ==
  IF s # <<>> /\ s[Len(s)] = "/" THEN RStripSlash(SubSeq(s, 1, Len(s) - 1)) ELSE s

\* os.path.dirname
dirname(p) ==
  LET head == SubSeq(p, 1, RFind(p, "/"))
  IN IF RStripSlash(head) = <<>> THEN head ELSE RStripSlash(head)

\* os.path.join(a, b) for a relative b
join2(a, b) ==
  IF b # <<>> /\ Head(b) = "/" THEN b
  ELSE IF a = <<>> \/ a[Len(a)] = "/" THEN a \o b
  ELSE a \o <<"/">> \o b

(***************************************************************************)
(* float(s) and int(s), for words of the form [-]digits[.digits] with at   *)
(* most three decimals (everything else the model feeds them is a word     *)
(* Python rejects with ValueError as well)                                 *)
(***************************************************************************)
DigitValue ==
  [c \in {"0", "1", "2", "3", "4", "5", "6", "7", "8", "9"} |->
     CASE c = "0" -> 0 [] c = "1" -> 1 [] c = "2" -> 2 [] c = "3" -> 3
       [] c = "4" -> 4 [] c = "5" -> 5 [] c = "6" -> 6 [] c = "7" -> 7
       [] c = "8" -> 8 [] c = "9" -> 9]

AllDigits(s) == Len(s) > 0 /\ \A i \in 1..Len(s) : s[i] \in DOMAIN DigitValue

RECURSIVE DigitsValue(_, _)
DigitsValue(s, acc) ==
  IF s = <<>> THEN acc ELSE DigitsValue(Tail(s), 10 * acc + DigitValue[Head(s)])

ValueError == [ok |-> FALSE, value |-> 0]

\* int(s): the integer itself
ParseInt(s) ==
  LET neg == s # <<>> /\ Head(s) = "-"
      body == IF neg THEN Tail(s) ELSE s
  IN IF ~AllDigits(body) THEN ValueError
     ELSE [ok |-> TRUE,
           value |-> IF neg THEN 0 - DigitsValue(body, 0) ELSE DigitsValue(body, 0)]

\* float(s): the value in thousandths
ParseFloat(s) ==
  LET neg == s # <<>> /\ Head(s) = "-"
      body == IF neg THEN Tail(s) ELSE s
      dot == RFind(body, ".")
      whole == IF dot = 0 THEN body ELSE SubSeq(body, 1, dot - 1)
      frac == IF dot = 0 THEN <<>> ELSE SubSeq(body, dot + 1, Len(body))
      frac3 == SubSeq(frac \o <<"0", "0", "0">>, 1, 3)
      mag == 1000 * DigitsValue(whole, 0) + DigitsValue(frac3, 0)
  IN IF ~AllDigits(whole) \/ (dot # 0 /\ ~AllDigits(frac)) \/ Len(frac) > 3
     THEN ValueError
     ELSE [ok |-> TRUE, value |-> IF neg THEN 0 - mag ELSE mag]

(***************************************************************************)
(* Audio                                                                   *)
(*                                                                         *)
(* A decoded file is a buffer of sample magnitudes plus what the meter     *)
(* needs to know of its waveform.  The meter (pyloudnorm) is modelled for  *)
(* stationary signals: every 400 ms block carries the same energy, so the  *)
(* relative gate removes nothing, the absolute gate removes all blocks or  *)
(* none, and the integrated loudness sits a fixed distance (crest) below   *)
(* the sample peak, whatever the scale of the buffer.                      *)
(***************************************************************************)
NoAudio == [kind |-> "none", samples |-> <<>>, crest |-> 0, short |-> FALSE, channels |-> 0]

CorruptFile == [kind |-> "corrupt", samples |-> <<>>, crest |-> 0, short |-> FALSE, channels |-> 0]

Audio(samples, crest, short, channels) ==
  [kind |-> "audio", samples |-> samples, crest |-> crest, short |-> short,
   channels |-> channels]

\* np.max(np.abs(x)): NaN as soon as one sample is NaN
Peak(samples) ==
  LET values == {samples[i] : i \in 1..Len(samples)}
  IN IF NaN \in values THEN NaN
     ELSE CHOOSE x \in values : \A y \in values : ~Gt(y, x)

\* buffer * gain
Scale(audio, gain) ==
  [audio EXCEPT !.samples = [i \in 1..Len(audio.samples) |-> Add(audio.samples[i], gain)]]

\* BS.1770 absolute gate, -70 LUFS
AbsoluteGate == -70000

\* meter.integrated_loudness(data): -inf when no block passes the gates (a
\* block holding a NaN or an inf never does)
integrated_loudness(audio) ==
  LET peak == Peak(audio.samples)
  IN IF peak.k = "fin" /\ peak.v - audio.crest > AbsoluteGate
     THEN Fin(peak.v - audio.crest)
     ELSE NegInf

\* pyln.normalize.loudness(data, input_loudness, target_loudness)
loudness(audio, input_loudness, target_loudness) ==
  Scale(audio, Sub(target_loudness, input_loudness))

\* 20 * log10(1 / 0.8) = 1.938 dB: the 0.8 of line 117
Damping == 1938

ExceedsCeilingOrEqual(peak, peak_limit_linear) == ~Gt(peak_limit_linear, peak)

\* current_peak > peak_limit_linear
ExceedsCeiling(peak, peak_limit_linear) == Gt(peak, peak_limit_linear)

CompensationGainUndamped(loudness_compensation) == loudness_compensation

\* 0.8 * (10 ** (loudness_compensation / 20))
compensation_gain(loudness_compensation) ==
  Add(Fin(0 - Damping), loudness_compensation)

NoLimiter ==
  [audio |-> NoAudio, limiter_applied |-> FALSE, measurements |-> 0,
   limited_loudness |-> NaN, final_clamp |-> FALSE]

\* lines 122-126: the peak is checked again, and clamped to the ceiling
recheck_peak(compensated, limited_loudness, peak_limit_linear, new_peak) ==
  IF ExceedsCeiling(new_peak, peak_limit_linear)
  THEN [audio |-> Scale(compensated, Sub(peak_limit_linear, new_peak)),
        limiter_applied |-> TRUE, measurements |-> 1,
        limited_loudness |-> limited_loudness, final_clamp |-> TRUE]
  ELSE [audio |-> compensated, limiter_applied |-> TRUE, measurements |-> 1,
        limited_loudness |-> limited_loudness, final_clamp |-> FALSE]

\* lines 113-120: the loudness lost to the limiter is given back, damped
compensate(limited, limited_loudness, target_loudness, peak_limit_linear, gain) ==
  recheck_peak(Scale(limited, gain), limited_loudness, peak_limit_linear,
               Peak(Scale(limited, gain).samples))

\* lines 106-111: the buffer is brought to the ceiling and measured again
limit_peak(limited, target_loudness, peak_limit_linear, limited_loudness) ==
  compensate(limited, limited_loudness, target_loudness, peak_limit_linear,
             compensation_gain(Sub(target_loudness, limited_loudness)))

\* the true-peak limiter of normalize_loudness, lines 99-126;
\* peak_limit_linear = 10 ** (true_peak_limit / 20) is true_peak_limit in dB
limiter_at(normalized_audio, target_loudness, peak_limit_linear, current_peak) ==
  IF ExceedsCeiling(current_peak, peak_limit_linear)
  THEN limit_peak(Scale(normalized_audio, Sub(peak_limit_linear, current_peak)),
                  target_loudness, peak_limit_linear,
                  integrated_loudness(Scale(normalized_audio,
                                            Sub(peak_limit_linear, current_peak))))
  ELSE [audio |-> normalized_audio, limiter_applied |-> FALSE, measurements |-> 0,
        limited_loudness |-> NaN, final_clamp |-> FALSE]

limiter(normalized_audio, target_loudness, true_peak_limit) ==
  limiter_at(normalized_audio, target_loudness, true_peak_limit,
             Peak(normalized_audio.samples))

(***************************************************************************)
(* normalize_loudness                                                      *)
(*                                                                         *)
(* The outcome of one call: the dictionary it returns (result), the files  *)
(* after it, and what it did on the way: the stages it completed in order  *)
(* (log; "encode" is entered when sf.write is called), the buffer after    *)
(* the normalizing gain (gained), what the limiter did (limited) and the   *)
(* buffer handed to sf.write (written).  flt names the stage at which an   *)
(* exception is raised in this call, if any.                               *)
(***************************************************************************)
Stages == {"decode", "measure", "gain", "limit", "measure_final", "makedirs", "encode"}

Faults == {"none", "encode_partial"} \cup Stages

NoError == [kind |-> "none", path |-> <<>>, stage |-> "none"]

NoResult ==
  [status |-> "none", error |-> NoError, original_loudness |-> NaN,
   normalized_loudness |-> NaN, loudness_gain |-> NaN, limiter_applied |-> FALSE,
   true_peak_limit |-> NaN, channels |-> 0, is_stereo |-> FALSE]

NoOutcome(fs) ==
  [result |-> NoResult, files |-> fs, log |-> <<>>, escaped |-> FALSE,
   gained |-> NoAudio, limited |-> NoLimiter, written |-> NoAudio]

\* the file system with path p holding content c
Put(fs, p, c) == [q \in DOMAIN fs \cup {p} |-> IF q = p THEN c ELSE fs[q]]

RaisedEscapes(o, stage) ==
  [o EXCEPT !.escaped = TRUE,
            !.result.error = [kind |-> "exception", path |-> <<>>, stage |-> stage]]

\* except Exception as e: return {"status": "error", "error": str(e)}
Raised(o, stage) ==
  [o EXCEPT !.result.status = "error",
            !.result.error = [kind |-> "exception", path |-> <<>>, stage |-> stage]]

\* lines 131-149: the output folder, sf.write and the returned dictionary
write_output(s5, audio_data, lim, original_loudness, normalized_loudness, output_path, true_peak_limit, flt) ==
  IF dirname(output_path) # <<>> /\ flt = "makedirs"
  THEN Raised(s5, "makedirs")
  ELSE IF flt = "encode"
  THEN Raised([s5 EXCEPT !.log = IF dirname(output_path) # <<>>
                                  THEN @ \o <<"makedirs", "encode">>
                                  ELSE Append(@, "encode"),
                         !.written = lim.audio], "encode")
  ELSE IF flt = "encode_partial"
  THEN Raised([s5 EXCEPT !.log = IF dirname(output_path) # <<>>
                                  THEN @ \o <<"makedirs", "encode">>
                                  ELSE Append(@, "encode"),
                         !.written = lim.audio,
                         !.files = Put(@, output_path, CorruptFile)], "encode")
  ELSE [s5 EXCEPT
          !.log = IF dirname(output_path) # <<>>
                  THEN @ \o <<"makedirs", "encode">>
                  ELSE Append(@, "encode"),
          !.written = lim.audio,
          !.files = Put(@, output_path, lim.audio),
          !.result = [status |-> "success", error |-> NoError,
                      original_loudness |-> original_loudness,
                      normalized_loudness |-> normalized_loudness,
                      loudness_gain |-> Sub(normalized_loudness, original_loudness),
                      limiter_applied |-> lim.limiter_applied,
                      true_peak_limit |-> true_peak_limit,
                      channels |-> audio_data.channels,
                      is_stereo |-> audio_data.channels > 1]]

\* lines 128-129: the loudness of the final buffer
measure_final(s4, audio_data, lim, original_loudness, output_path, true_peak_limit, flt) ==
  IF flt = "measure_final"
  THEN Raised(s4, "measure_final")
  ELSE write_output([s4 EXCEPT !.log = Append(@, "measure_final")], audio_data, lim,
                    original_loudness, integrated_loudness(lim.audio), output_path,
                    true_peak_limit, flt)

\* lines 99-126: the limiter
apply_limiter(s3, audio_data, normalized_audio, original_loudness, output_path, target_loudness, true_peak_limit, flt) ==
  IF flt = "limit"
  THEN Raised([s3 EXCEPT !.gained = normalized_audio], "limit")
  ELSE measure_final([s3 EXCEPT !.log = Append(@, "limit"),
                                !.gained = normalized_audio,
                                !.limited = limiter(normalized_audio, target_loudness,
                                                    true_peak_limit)],
                     audio_data,
                     limiter(normalized_audio, target_loudness, true_peak_limit),
                     original_loudness, output_path, true_peak_limit, flt)

\* lines 94-97: the normalizing gain
apply_gain(s2, audio_data, original_loudness, output_path, target_loudness, true_peak_limit, flt) ==
  IF flt = "gain"
  THEN Raised(s2, "gain")
  ELSE apply_limiter([s2 EXCEPT !.log = Append(@, "gain")], audio_data,
                     loudness(audio_data, original_loudness, target_loudness),
                     original_loudness, output_path, target_loudness, true_peak_limit, flt)

\* lines 88-92: the loudness of the input
measure_original(s1, audio_data, output_path, target_loudness, true_peak_limit, flt) ==
  IF flt = "measure" \/ audio_data.short
  THEN Raised(s1, "measure")
  ELSE apply_gain([s1 EXCEPT !.log = Append(@, "measure")], audio_data,
                  integrated_loudness(audio_data), output_path, target_loudness,
                  true_peak_limit, flt)

normalize_loudness(fs, input_path, output_path, target_loudness, true_peak_limit, flt) ==
  IF ~check_supported_format(input_path)
  THEN [NoOutcome(fs) EXCEPT
          !.result.status = "error",
          !.result.error = [kind |-> "unsupported_format", path |-> input_path,
                            stage |-> "none"]]
  ELSE IF flt = "decode" \/ input_path \notin DOMAIN fs \/ fs[input_path].kind # "audio"
  THEN Raised(NoOutcome(fs), "decode")
  ELSE measure_original([NoOutcome(fs) EXCEPT !.log = <<"decode">>], fs[input_path],
                        output_path, target_loudness, true_peak_limit, flt)

(***************************************************************************)
(* Command line                                                            *)
(***************************************************************************)
OptT == <<"-", "t">>
OptTarget == <<"-", "-", "t", "a", "r", "g", "e", "t">>
OptP == <<"-", "p">>
OptPeak == <<"-", "-", "p", "e", "a", "k">>
OptTol == <<"-", "t", "o", "l">>
OptTolerance == <<"-", "-", "t", "o", "l", "e", "r", "a", "n", "c", "e">>
OptM == <<"-", "m">>
OptMaxAttempts == <<"-", "-", "m", "a", "x", "-", "a", "t", "t", "e", "m", "p", "t", "s">>

\* sys.exit(1) inside parse_arguments or _get_option_value
ExitParse ==
  [exit |-> TRUE, input_file |-> <<>>, output_file |-> <<>>, target_loudness |-> 0,
   true_peak_limit |-> 0, tolerance |-> 0, max_attempts |-> 0]

\* _get_option_value(i, option_name, convert_func); args[i] is the option
\* (sys.argv is 0-based, args is 1-based: sys.argv[j] is args[j + 1])
get_option_value(args, i, convert_func) ==
  IF i < Len(args)
  THEN LET r == IF convert_func = "float" THEN ParseFloat(args[i + 1])
                ELSE ParseInt(args[i + 1])
       IN IF r.ok THEN [exit |-> FALSE, value |-> r.value, next |-> i + 2]
          ELSE [exit |-> TRUE, value |-> 0, next |-> i]
  ELSE [exit |-> TRUE, value |-> 0, next |-> i]

\* the while loop of parse_arguments
RECURSIVE parse_options(_, _, _)
parse_options(args, i, st) ==
  IF i > Len(args) THEN st
  ELSE IF args[i] \in {OptT, OptTarget}
  THEN LET r == get_option_value(args, i, "float")
       IN IF r.exit THEN ExitParse
          ELSE parse_options(args, r.next, [st EXCEPT !.target_loudness = r.value])
  ELSE IF args[i] \in {OptP, OptPeak}
  THEN LET r == get_option_value(args, i, "float")
       IN IF r.exit THEN ExitParse
          ELSE parse_options(args, r.next, [st EXCEPT !.true_peak_limit = r.value])
  ELSE IF args[i] \in {OptTol, OptTolerance}
  THEN LET r == get_option_value(args, i, "float")
       IN IF r.exit THEN ExitParse
          ELSE parse_options(args, r.next, [st EXCEPT !.tolerance = r.value])
  ELSE IF args[i] \in {OptM, OptMaxAttempts}
  THEN LET r == get_option_value(args, i, "int")
       IN IF r.exit THEN ExitParse
          ELSE parse_options(args, r.next, [st EXCEPT !.max_attempts = r.value])
  ELSE ExitParse

\* parse_arguments(), with sys.argv = args and os.path.isfile read from fs
\* (directories, and the os.makedirs of the default output folder, are not kept)
parse_arguments(args, fs) ==
  IF Len(args) < 2 THEN ExitParse
  ELSE
  LET input_file == args[2]
  IN
  IF input_file \notin DOMAIN fs THEN ExitParse
  ELSE IF ~check_supported_format(input_file) THEN ExitParse
  ELSE
  LET given == Len(args) >= 3 /\ ~(args[3] # <<>> /\ Head(args[3]) = "-")
      output_file == IF given THEN args[3]
                     ELSE join2(join2(dirname(input_file), <<"o", "u", "t", "p", "u", "t">>),
                                basename(input_file))
      arg_start_index == IF given THEN 4 ELSE 3
  IN parse_options(args, arg_start_index,
       [exit |-> FALSE, input_file |-> input_file, output_file |-> output_file,
        target_loudness |-> -14000, true_peak_limit |-> -1000, tolerance |-> 500,
        max_attempts |-> 1])

\* abs(value - target) <= tolerance
is_within_tolerance(value, target, tolerance) ==
  Le(AbsDiff(Sub(value, target)), tolerance)

NoReport == [verdict |-> "none", output_file |-> <<>>]

DisplayOutputOnSuccessOnly(success, output_file) ==
  [verdict |-> IF success THEN "completed" ELSE "failed",
   output_file |-> IF success THEN output_file ELSE <<>>]

\* _display_final_result: what it prints
display_final_result(success, output_file) ==
  [verdict |-> IF success THEN "completed" ELSE "failed", output_file |-> output_file]

\* main(), lines 482-502: what follows the call of normalize_loudness
main_result(a, o, success) ==
  IF o.result.status # "success"
  THEN [exit_code |-> 1, parsed |-> a, outcome |-> o, attempts |-> 1,
        success |-> FALSE, report |-> NoReport]
  ELSE [exit_code |-> 0, parsed |-> a, outcome |-> o, attempts |-> 1, success |-> success,
        report |-> display_final_result(success, a.output_file)]

\* main(), lines 457-489: a is what parse_arguments returned, o the result of
\* the one call of normalize_loudness
main_run(a, fs, o) ==
  IF a.exit \/ a.input_file \notin DOMAIN fs
  THEN [exit_code |-> 1, parsed |-> a, outcome |-> NoOutcome(fs), attempts |-> 0,
        success |-> FALSE, report |-> NoReport]
  ELSE main_result(a, o, is_within_tolerance(o.result.normalized_loudness,
                                             Fin(a.target_loudness), Fin(a.tolerance)))

\* the call of lines 475-480
main_call(a, fs, flt) ==
  main_run(a, fs, normalize_loudness(fs, a.input_file, a.output_file,
                                     Fin(a.target_loudness), Fin(a.true_peak_limit), flt))

\* main(): the whole run of the command line
main(args, fs, flt) == main_call(parse_arguments(args, fs), fs, flt)

\* _process_normalization_attempt, lines 391-412: returned is FALSE when
\* the call ends in sys.exit(1)
attempt_result(current_loudness, adjusted_target, result) ==
  [returned |-> result.result.status = "success",
   exit_code |-> IF result.result.status = "success" THEN 0 ELSE 1,
   crashed |-> FALSE,
   current_loudness |-> current_loudness,
   adjusted_target |-> adjusted_target,
   outcome |-> result]

\* lines 381-397: the adjusted target, and the call of normalize_loudness
attempt_adjusted(fs, input_path, output_path, true_peak_limit, flt, current_loudness, adjusted_target) ==
  attempt_result(current_loudness, adjusted_target,
                 normalize_loudness(fs, input_path, output_path, adjusted_target,
                                    true_peak_limit, flt))

\* _process_normalization_attempt; an exception of lines 367-379 is caught by
\* nothing (crashed)
process_normalization_attempt(fs, input_path, output_path, target_loudness, true_peak_limit, attempt_num, flt) ==
  IF attempt_num > 1
  THEN IF input_path \notin DOMAIN fs \/ fs[input_path].kind # "audio" \/ fs[input_path].short
       THEN [returned |-> FALSE, exit_code |-> 1, crashed |-> TRUE,
             current_loudness |-> NaN, adjusted_target |-> target_loudness,
             outcome |-> NoOutcome(fs)]
       ELSE attempt_adjusted(fs, input_path, output_path, true_peak_limit, flt,
              integrated_loudness(fs[input_path]),
              Add(target_loudness,
                  Times15(Sub(target_loudness, integrated_loudness(fs[input_path])))))
  ELSE attempt_adjusted(fs, input_path, output_path, true_peak_limit, flt, NaN,
                        target_loudness)

(***************************************************************************)
(* The inputs of a run                                                     *)
(***************************************************************************)
\* attempts the caller of _process_normalization_attempt asks for, at most
MaxAttemptNum == 3

PathWav == <<"a", ".", "w", "a", "v">>
PathUpper == <<"a", ".", "W", "A", "V">>
PathMp3InDir == <<"d", "/", "a", ".", "M", "p", "3">>
PathFlac == <<"b", ".", "c", ".", "f", "l", "a", "c">>
PathSlash == <<"a", ".", "w", "a", "v", "/">>
PathOgg == <<"a", ".", "o", "g", "g">>
PathNoExt == <<"w", "a", "v">>
PathHidden == <<"d", "/", ".", "w", "a", "v">>
PathTrailingDot == <<"a", ".", "w", "a", "v", ".">>
PathDirExt == <<"d", ".", "w", "a", "v", "/", "b">>
PathPrefix == <<"a", ".", "w", "a">>
PathLonger == <<"a", ".", "m", "p", "3", "4">>
PathOut == <<"o", ".", "w", "a", "v">>
PathOutInDir == <<"d", "/", "o", ".", "w", "a", "v">>

InputPaths ==
  {PathWav, PathUpper, PathMp3InDir, PathFlac, PathSlash, PathOgg, PathNoExt,
   PathHidden, PathTrailingDot, PathDirExt, PathPrefix, PathLonger}

\* what the input file holds: three samples (the loudest first) and the
\* distance of the integrated loudness below the sample peak
FileContents ==
  { Audio(<<Fin(-6000), Fin(-12000), NegInf>>, 10000, FALSE, 1),
    Audio(<<Fin(-7000), Fin(-7000), Fin(-30000)>>, 13000, FALSE, 2),
    Audio(<<Fin(-6000), NegInf, Fin(-9000)>>, 14000, FALSE, 1),
    Audio(<<Fin(-6000), Fin(-6500), Fin(-20000)>>, 14938, FALSE, 2),
    Audio(<<Fin(-2000), Fin(-40000), NegInf>>, 18000, FALSE, 1),
    Audio(<<NegInf, NegInf, NegInf>>, 3000, FALSE, 2),
    Audio(<<Fin(-80000), Fin(-81000), Fin(-90000)>>, 3000, FALSE, 1),
    Audio(<<Fin(-80000), NegInf, Fin(-90000)>>, 3000, FALSE, 1),
    Audio(<<Fin(-6000), Fin(-12000), NegInf>>, 10000, TRUE, 1),
    CorruptFile }

W16 == <<"-", "1", "6", ".", "0">>
W2 == <<"-", "2", ".", "0">>
W80 == <<"-", "8", "0">>

OptionLists ==
  { <<>>,
    <<OptM, <<"3">>>>,
    <<OptMaxAttempts, <<"2">>>>,
    <<OptM, <<"1">>>>,
    <<OptT, W16>>,
    <<OptTarget, <<"-", "1", "6">>>>,
    <<OptP, W2>>,
    <<OptPeak, W80>>,
    <<OptTol, <<"2", ".", "5">>>>,
    <<OptTolerance, <<"0", ".", "3">>, OptM, <<"3">>>>,
    <<OptP, W2, OptTol, <<"2", ".", "5">>, OptM, <<"5">>>>,
    <<OptM>>,
    <<OptM, <<"2", ".", "5">>>>,
    <<OptT, <<"x">>>>,
    <<<<"-", "x">>>> }

Prog == <<"l", "n">>

ArgVectors ==
  {<<Prog>>}
  \cup {<<Prog, i>> \o opts : i \in InputPaths, opts \in OptionLists}
  \cup {<<Prog, i, o>> \o opts : i \in {PathWav, PathMp3InDir, PathOgg},
                                 o \in {PathOut, PathWav}, opts \in OptionLists}

NoCall ==
  [input_path |-> <<>>, output_path |-> <<>>, target_loudness |-> NaN,
   true_peak_limit |-> NaN]

ApiCalls ==
  [input_path : InputPaths, output_path : {PathOut},
   target_loudness : {Fin(-14000)}, true_peak_limit : {Fin(-1000), Fin(-2000)}]
  \cup
  [input_path : {PathWav, PathMp3InDir}, output_path : {PathOutInDir, PathWav},
   target_loudness : {Fin(-14000), Fin(-16000)},
   true_peak_limit : {Fin(-1000), Fin(-2000), Fin(-80000)}]

AttemptCalls ==
  [input_path : {PathWav}, output_path : {PathOut, PathWav},
   target_loudness : {Fin(-14000)}, true_peak_limit : {Fin(-1000), Fin(-2000)}]

Disks(path) == {<<>>} \cup {Put(<<>>, path, c) : c \in FileContents}

NoAttempt == [current_loudness |-> NaN, adjusted_target |-> NaN, crashed |-> FALSE]

(***************************************************************************)
(* State                                                                   *)
(***************************************************************************)
VARIABLES
  entry,        \* the entry point of this run: "main", "api" (a direct call of
                \* normalize_loudness) or "attempt" (calls of
                \* _process_normalization_attempt with attempt_num 1, 2, ...)
  sys_argv,     \* sys.argv of a "main" run
  call,         \* the arguments of an "api" or "attempt" run
  disk,         \* the files: path -> content
  before,       \* the files when the last call started
  fault,        \* the stage at which the last call raised, as injected
  pc,           \* "start" or "done"
  parsed,       \* what parse_arguments returned
  working_target, \* target_loudness as passed to the last normalize_loudness call
  outcome,      \* the outcome of the last normalize_loudness call
  previous,     \* the outcome of the normalize_loudness call before it
  attempt,      \* what the last _process_normalization_attempt computed
  attempt_num,  \* attempt_num of the last _process_normalization_attempt call
  attempts,     \* normalize_loudness calls made so far
  exit_code,    \* the process exit status, -1 while it runs
  success,      \* main's success flag
  report        \* what _display_final_result printed

vars ==
  <<entry, sys_argv, call, disk, before, fault, pc, parsed, working_target, outcome,
    previous, attempt, attempt_num, attempts, exit_code, success, report>>

InitCommon ==
  /\ before = disk
  /\ fault = "none"
  /\ pc = "start"
  /\ parsed = ExitParse
  /\ working_target = NaN
  /\ outcome = NoOutcome(disk)
  /\ previous = NoOutcome(disk)
  /\ attempt = NoAttempt
  /\ attempt_num = 0
  /\ attempts = 0
  /\ exit_code = -1
  /\ success = FALSE
  /\ report = NoReport

InitMain ==
  /\ entry = "main"
  /\ sys_argv \in ArgVectors
  /\ call = NoCall
  /\ disk \in (IF Len(sys_argv) >= 2 THEN Disks(sys_argv[2]) ELSE {<<>>})
  /\ InitCommon

InitApi ==
  /\ entry = "api"
  /\ sys_argv = <<>>
  /\ call \in ApiCalls
  /\ disk \in Disks(call.input_path)
  /\ InitCommon

InitAttempt ==
  /\ entry = "attempt"
  /\ sys_argv = <<>>
  /\ call \in AttemptCalls
  /\ disk \in Disks(call.input_path)
  /\ InitCommon

Init == InitMain \/ InitApi \/ InitAttempt

(***************************************************************************)
(* Actions                                                                 *)
(***************************************************************************)
MainStep(r, flt) ==
  /\ fault' = flt
  /\ parsed' = r.parsed
  /\ working_target' = IF r.attempts = 0 THEN NaN ELSE Fin(r.parsed.target_loudness)
  /\ outcome' = r.outcome
  /\ attempts' = r.attempts
  /\ exit_code' = r.exit_code
  /\ success' = r.success
  /\ report' = r.report
  /\ disk' = r.outcome.files

\* python loudness_normalize.py ...: main() from start to exit
Main ==
  /\ entry = "main"
  /\ pc = "start"
  /\ \E flt \in Faults : MainStep(main(sys_argv, disk, flt), flt)
  /\ previous' = outcome
  /\ before' = disk
  /\ pc' = "done"
  /\ UNCHANGED <<entry, sys_argv, call, attempt, attempt_num>>

NormalizeStep(o, flt) ==
  /\ fault' = flt
  /\ outcome' = o
  /\ disk' = o.files

\* a direct call of normalize_loudness
Normalize ==
  /\ entry = "api"
  /\ pc = "start"
  /\ \E flt \in Faults :
       NormalizeStep(normalize_loudness(disk, call.input_path, call.output_path,
                                        call.target_loudness, call.true_peak_limit, flt),
                     flt)
  /\ previous' = outcome
  /\ working_target' = call.target_loudness
  /\ attempts' = 1
  /\ before' = disk
  /\ pc' = "done"
  /\ UNCHANGED <<entry, sys_argv, call, parsed, attempt, attempt_num, exit_code, success, report>>

AttemptStep(r, flt) ==
  /\ fault' = flt
  /\ attempt' = [current_loudness |-> r.current_loudness,
                 adjusted_target |-> r.adjusted_target, crashed |-> r.crashed]
  /\ outcome' = r.outcome
  /\ working_target' = r.adjusted_target
  /\ attempts' = IF r.crashed THEN attempts ELSE attempts + 1
  /\ disk' = r.outcome.files
  /\ exit_code' = IF r.returned THEN -1 ELSE r.exit_code
  /\ pc' = IF r.returned THEN "start" ELSE "done"

\* the next call of _process_normalization_attempt, on the same paths
Attempt ==
  /\ entry = "attempt"
  /\ pc = "start"
  /\ attempt_num < MaxAttemptNum
  /\ \E flt \in Faults :
       AttemptStep(process_normalization_attempt(disk, call.input_path, call.output_path,
                     call.target_loudness, call.true_peak_limit, attempt_num + 1, flt),
                   flt)
  /\ previous' = outcome
  /\ attempt_num' = attempt_num + 1
  /\ before' = disk
  /\ UNCHANGED <<entry, sys_argv, call, parsed, success, report>>

Next == Main \/ Normalize \/ Attempt

Spec == Init /\ [][Next]_vars

(***************************************************************************)
(* Properties                                                              *)
(***************************************************************************)
\* the last call of normalize_loudness: its arguments
CallInput == IF entry = "main" THEN parsed.input_file ELSE call.input_path
CallCeiling == IF entry = "main" THEN Fin(parsed.true_peak_limit) ELSE call.true_peak_limit

\* the last call of normalize_loudness completed this stage (entered it, for "encode")
InLog(stage) == \E i \in 1..Len(outcome.log) : outcome.log[i] = stage

\* normalize_loudness was called in the last step
Called == attempts > 0 /\ ~attempt.crashed

\* the extension of a path, said without the code: the final component ends
\* in a dot and one of the three names, in any case, and something precedes
\* the dot
EndsWith(name, fmt) ==
  /\ Len(name) > Len(fmt) + 1
  /\ name[Len(name) - Len(fmt)] = "."
  /\ \A j \in 1..Len(fmt) : LowerChar(name[Len(name) - Len(fmt) + j]) = fmt[j]

HasSupportedExtension(file_path) ==
  \E fmt \in {<<"w", "a", "v">>, <<"m", "p", "3">>, <<"f", "l", "a", "c">>} :
    EndsWith(PathName(file_path), fmt)

Max(x, y) == IF x > y THEN x ELSE y

\* C1 (as claimed): whenever normalize_loudness returns status "success", the
\* buffer handed to sf.write has max(|sample|) <= 10^(true_peak_limit/20).
C1_CeilingInvariant ==
  (Called /\ outcome.result.status = "success")
    => Le(Peak(outcome.written.samples), outcome.result.true_peak_limit)

\* C2 (as claimed): a run that completes stops after the first attempt within
\* tolerance of the target, or after exactly max_attempts attempts when none
\* is; so with max_attempts > 1 and a first attempt outside tolerance a second
\* attempt is run.
C2_ConvergenceTermination ==
  (entry = "main" /\ pc = "done" /\ exit_code = 0 /\ parsed.max_attempts >= 1)
    => /\ attempts >= 1
       /\ attempts <= parsed.max_attempts
       /\ success \/ attempts = parsed.max_attempts

\* C3 (as claimed): when the measured loudness of the input is negative
\* infinity, normalize_loudness applies no gain, writes no file and returns
\* an error of its own kind.
C3_SilentSignalRejected ==
  (Called /\ InLog("measure") /\ integrated_loudness(before[CallInput]) = NegInf)
    => /\ outcome.result.status = "error"
       /\ outcome.result.error.kind = "silent_signal"
       /\ ~InLog("gain")
       /\ ~InLog("encode")
       /\ disk = before

\* C4: in every call of normalize_loudness sf.write is invoked at most once,
\* and only after decoding, measurement, gain, limiting and the final
\* measurement have completed in that order; when one of those raises, the
\* call returns status "error", sf.write was not invoked and no file changed;
\* no exception leaves normalize_loudness.
C4_EncoderLast ==
  Called =>
    /\ Cardinality({i \in 1..Len(outcome.log) : outcome.log[i] = "encode"}) <= 1
    /\ InLog("encode")
         => /\ outcome.log[Len(outcome.log)] = "encode"
            /\ SubSeq(outcome.log, 1, 5)
                 = <<"decode", "measure", "gain", "limit", "measure_final">>
            /\ outcome.written = outcome.limited.audio
    /\ outcome.result.error.stage \in {"decode", "measure", "gain", "limit", "measure_final"}
         => /\ outcome.result.status = "error"
            /\ ~InLog("encode")
            /\ outcome.written = NoAudio
            /\ disk = before
    /\ outcome.result.status = "success" => InLog("encode")
    /\ outcome.result.status \in {"success", "error"}
    /\ ~outcome.escaped

C4_Witness ==
  /\ Called
  /\ outcome.result.status = "error"
  /\ outcome.result.error.stage = "measure_final"
  /\ outcome.log = <<"decode", "measure", "gain", "limit">>
  /\ outcome.limited.limiter_applied
  /\ disk = before

\* C5: when normalize_loudness succeeds in a run of main, the output file
\* holds the normalized buffer, its path is printed and the run does not
\* exit with an error, whether or not the loudness is within tolerance of the
\* target; the tolerance decides the printed verdict only.
C5_ReportOnly ==
  (entry = "main" /\ pc = "done" /\ outcome.result.status = "success")
    => /\ exit_code = 0
       /\ parsed.output_file \in DOMAIN disk
       /\ disk[parsed.output_file] = outcome.written
       /\ report.output_file = parsed.output_file
       /\ report.verdict = IF success THEN "completed" ELSE "failed"
       /\ success = Le(AbsDiff(Sub(outcome.result.normalized_loudness,
                                   Fin(parsed.target_loudness))),
                       Fin(parsed.tolerance))

C5_Witness ==
  /\ entry = "main"
  /\ pc = "done"
  /\ outcome.result.status = "success"
  /\ ~success
  /\ report.verdict = "failed"
  /\ parsed.output_file \in DOMAIN disk

\* C6: a path whose extension is not wav, mp3 or flac (in any case) makes
\* normalize_loudness return an error naming the path, with neither decoder
\* nor encoder invoked, and makes the command line exit with status 1 before
\* any processing; a path with one of the three is accepted by
\* check_supported_format.
C6_UnsupportedFormat ==
  /\ (entry = "api" /\ pc = "done" /\ ~HasSupportedExtension(call.input_path))
       => /\ outcome.result.status = "error"
          /\ outcome.result.error.kind = "unsupported_format"
          /\ outcome.result.error.path = call.input_path
          /\ outcome.log = <<>>
          /\ disk = before
  /\ (entry = "main" /\ pc = "done" /\ Len(sys_argv) >= 2
        /\ ~HasSupportedExtension(sys_argv[2]))
       => /\ exit_code = 1
          /\ attempts = 0
          /\ disk = before
  /\ (entry = "api" /\ HasSupportedExtension(call.input_path))
       => check_supported_format(call.input_path)
  /\ (entry = "main" /\ Len(sys_argv) >= 2 /\ HasSupportedExtension(sys_argv[2]))
       => check_supported_format(sys_argv[2])

C6_Witness ==
  /\ entry = "api"
  /\ pc = "done"
  /\ call.input_path \in DOMAIN before
  /\ ~HasSupportedExtension(call.input_path)
  /\ outcome.result.error.path = call.input_path

\* C7 (as claimed): attempt 1 uses the target unmodified; before attempt k > 1
\* current_loudness is the loudness of the output of attempt k-1 and the
\* working target is target + 1.5 * (target - current_loudness).
C7_TargetAdjustment ==
  (entry = "attempt" /\ attempt_num >= 1 /\ ~attempt.crashed)
    => IF attempt_num = 1
       THEN attempt.adjusted_target = call.target_loudness
       ELSE /\ attempt.current_loudness = previous.result.normalized_loudness
            /\ attempt.adjusted_target
                 = Add(call.target_loudness,
                       Times15(Sub(call.target_loudness,
                                   previous.result.normalized_loudness)))

\* C8 (as claimed): whatever argument vector parse_arguments accepts, the
\* max_attempts it returns is 1 and the run makes exactly one attempt.
C8_AttemptsPinned ==
  (entry = "main" /\ pc = "done" /\ ~parsed.exit)
    => parsed.max_attempts = 1 /\ attempts = 1

\* C9: after the normalizing gain, limiter_applied is true exactly when the
\* peak is strictly above the ceiling; when the peak is at or below the
\* ceiling the limiter changes no sample and measures nothing.
C9_LimiterEngagement ==
  (Called /\ InLog("limit"))
    => /\ outcome.limited.limiter_applied
            <=> Gt(Peak(outcome.gained.samples), CallCeiling)
       /\ Le(Peak(outcome.gained.samples), CallCeiling)
            => /\ outcome.limited.audio = outcome.gained
               /\ outcome.limited.measurements = 0
               /\ ~outcome.limited.final_clamp
       /\ outcome.result.status = "success"
            => outcome.result.limiter_applied = outcome.limited.limiter_applied

C9_Witness ==
  /\ Called
  /\ InLog("limit")
  /\ Peak(outcome.gained.samples) = CallCeiling
  /\ ~outcome.limited.limiter_applied
  /\ outcome.limited.audio = outcome.gained

\* every loudness reading of the call was finite: the meter followed each
\* gain exactly
FiniteReadings ==
  /\ outcome.result.original_loudness.k = "fin"
  /\ outcome.limited.limited_loudness.k = "fin"
  /\ outcome.result.normalized_loudness.k = "fin"
  /\ working_target.k = "fin"

\* C10: with a meter that follows every gain exactly, a call in which the
\* limiter engaged (peak P after the gain above the ceiling C) ends at loudness
\* target - max(P - C, 20*log10(1/0.8)): never above the target, at least
\* 1.938 LU below it, so never within a tolerance smaller than that; and the
\* second clamp fires exactly when P - C > 20*log10(1/0.8).
C10_LimitedLoudness ==
  (Called /\ outcome.result.status = "success" /\ outcome.limited.limiter_applied
     /\ FiniteReadings)
    => /\ outcome.result.normalized_loudness.v
            = working_target.v
              - Max(Peak(outcome.gained.samples).v - CallCeiling.v, Damping)
       /\ outcome.result.normalized_loudness.v <= working_target.v - Damping
       /\ outcome.limited.final_clamp
            <=> Peak(outcome.gained.samples).v - CallCeiling.v > Damping
       /\ (entry = "main" /\ pc = "done" /\ parsed.tolerance < Damping) => ~success

C10_Witness ==
  /\ entry = "main"
  /\ pc = "done"
  /\ outcome.result.status = "success"
  /\ outcome.limited.limiter_applied
  /\ FiniteReadings
  /\ Peak(outcome.gained.samples).v - CallCeiling.v = Damping
  /\ ~outcome.limited.final_clamp
  /\ ~success

====
